---- MODULE Spec2Model ----
(***************************************************************************)
(* Model of the Scizor backend's gating-and-dispatch subsystem:            *)
(*   - AiService: lazy initialisation of the OpenAI client, the three      *)
(*     operations (enhancePrompt, generateResponse, textToSpeech), the     *)
(*     token deduction before each operation and serviceErrorHandler;      *)
(*   - FirestoreService: the user_token collection (createUser,            *)
(*     getUserToken, updateUserToken, deductUserTokens).                   *)
(* Every action is one run-to-completion segment of the TypeScript code:   *)
(* the code between two awaits runs atomically on the Node event loop.     *)
(***************************************************************************)
EXTENDS Integers, Sequences, FiniteSets, TLC

(* ------------------------------ bounds --------------------------------- *)
MaxTasks == 2        \* concurrent callers in the main specification
MaxOps == 2          \* calls started in one behaviour
MaxDocs == 2         \* documents in the user_token collection
MaxInits == 2        \* performInitialization runs that are tracked
MaxSpenders == 3     \* concurrent spenders in the atomic-spend specification
MaxStartBalance == 3 \* initial balance in the atomic-spend specification
MaxCost == 2         \* cost of a direct spend in the ledger specification

(* ------------------------- program constants --------------------------- *)
InitialGrant == 20
ReportedGrant == 0
MaxTextLength == 4096
TokenCost == 1

Users == {"u1", "u2"}
NoUser == ""
AiOps == {"enhance", "generate", "tts"}
LedgerOps == {"createUser", "updateUserToken", "getUserToken"}

Max2(a, b) == IF a >= b THEN a ELSE b
Min2(a, b) == IF a <= b THEN a ELSE b
Tasks == 1..MaxTasks
Spenders == 1..MaxSpenders
AllTasks == 1..Max2(MaxTasks, MaxSpenders)

\* lengths of the primary field that the code distinguishes
TextLengths == {0, 1, MaxTextLength, MaxTextLength + 1}
\* values offered to updateUserToken (a JavaScript number, unchecked)
TokenValues == {-1, 0, 2}

VARIABLES
  apiKey,                 \* OPENAI_API_KEY is configured
  constructed,            \* the AiService constructor has run
  openai,                 \* this.openai: "null" or "client"
  isInitialized,          \* this.isInitialized
  initializationPromise,  \* this.initializationPromise: 0 (null) or index in inits
  inits,                  \* the performInitialization runs: their promise states
  constructions,          \* number of `new OpenAI.default(...)` executed
  docs,                   \* the user_token collection, in query order
  pc,                     \* where each task is suspended
  req,                    \* the request of each task
  awaited,                \* the initialisation promise a task awaits (0: none)
  result,                 \* the outcome of each task's operation
  spends,                 \* successful ledger spends of the current request
  invokes,                \* capability invocations of the current request
  docRef,                 \* the document an updateUserToken call holds (0: none)
  burst,                  \* observer of a burst of spends: its tally
  budget,                 \* calls that may still be started
  trip,                   \* observer of a create / get / spend / get round trip
  dto,                    \* optional fields of the request being assembled
  messages                \* system and user content built for the capability

svcVars == <<apiKey, constructed, openai, isInitialized, initializationPromise,
             inits, constructions>>
taskVars == <<pc, req, awaited, result, spends, invokes, docRef>>
vars == <<apiKey, constructed, openai, isInitialized, initializationPromise,
          inits, constructions, docs, pc, req, awaited, result, spends,
          invokes, docRef, burst, budget, trip, dto, messages>>

NoReq == [op |-> "none", user_id |-> NoUser, len |-> 0, tokens |-> 0]
NoResult == [success |-> FALSE, msg |-> "none", value |-> 0]
NoBurst == [on |-> FALSE, start |-> 0, ok |-> 0, insufficient |-> 0, other |-> 0]
NoTrip == [on |-> FALSE, user |-> NoUser, seen |-> << >>]

(* ----------------------- FirestoreService helpers ---------------------- *)
\* .where('user_id', '==', userId).limit(1).get(): the first matching document
FindDoc(d, u) ==
  IF \E i \in 1..Len(d) : d[i].user_id = u
  THEN CHOOSE i \in 1..Len(d) :
         /\ d[i].user_id = u
         /\ \A j \in 1..(i - 1) : d[j].user_id # u
  ELSE 0

\* userExists: !querySnapshot.empty
userExists(d, u) == FindDoc(d, u) # 0

\* A settled call is handed to its caller before any other I/O callback runs:
\* the continuation of the caller's await is a microtask.
NoneSettled == \A t \in AllTasks : pc[t] # "done"

(* ------------------------------ errors --------------------------------- *)
\* the values thrown inside AiService: NestJS exceptions and provider errors
BadRequestException(m) ==
  [kind |-> "BadRequestException", msg |-> m, status |-> 0, code |-> "",
   timeoutText |-> FALSE]
ServiceUnavailableException ==
  [kind |-> "ServiceUnavailableException", msg |-> "OpenAI service is not available",
   status |-> 0, code |-> "", timeoutText |-> FALSE]
\* what the capability invocation can reject with: an HTTP status of the
\* provider's response (0: no response), a socket error code, and whether the
\* raw message contains the word 'timeout'
ProviderStatuses == {0, 400, 401, 429, 500, 503}
ProviderCodes == {"", "ECONNREFUSED", "ENOTFOUND", "ETIMEDOUT"}
RawTexts == {"raw provider text", "other raw provider text"}
ProviderErrors ==
  [kind : {"Error"}, msg : RawTexts, status : ProviderStatuses,
   code : ProviderCodes, timeoutText : BOOLEAN]

FailedTo(op) ==
  CASE op = "enhance" -> "Failed to enhance prompt"
    [] op = "generate" -> "Failed to generate response"
    [] OTHER -> "Failed to convert text to speech"

\* mutant: the socket code of the error is looked at before its status
serviceErrorHandler_CodeBeforeStatus(e, op) ==
  IF e.kind = "BadRequestException" THEN e.msg
  ELSE IF e.kind = "ServiceUnavailableException"
    THEN "AI service is currently unavailable"
  ELSE IF e.code = "ECONNREFUSED" \/ e.code = "ENOTFOUND"
    THEN "Unable to connect to AI service"
  ELSE IF e.code = "ETIMEDOUT" \/ e.timeoutText
    THEN "AI service request timed out"
  ELSE IF e.status # 0 THEN
    CASE e.status = 401 -> "AI service authentication failed"
      [] e.status = 429 -> "AI service is experiencing high demand"
      [] e.status = 400 -> "Invalid request parameters"
      [] e.status = 500 -> "AI service encountered an internal error"
      [] OTHER -> "AI service error occurred"
  ELSE FailedTo(op)

\* mutant: the generic fallback forwards the raw message of the error
serviceErrorHandler_ForwardsRawText(e, op) ==
  IF e.kind = "BadRequestException" THEN e.msg
  ELSE IF e.kind = "ServiceUnavailableException"
    THEN "AI service is currently unavailable"
  ELSE IF e.status # 0 THEN
    CASE e.status = 401 -> "AI service authentication failed"
      [] e.status = 429 -> "AI service is experiencing high demand"
      [] e.status = 400 -> "Invalid request parameters"
      [] e.status = 500 -> "AI service encountered an internal error"
      [] OTHER -> "AI service error occurred"
  ELSE IF e.code = "ECONNREFUSED" \/ e.code = "ENOTFOUND"
    THEN "Unable to connect to AI service"
  ELSE IF e.code = "ETIMEDOUT" \/ e.timeoutText
    THEN "AI service request timed out"
  ELSE e.msg

\* mutant: the timeout branch is lost, timeouts fall to the generic message
serviceErrorHandler_NoTimeoutBranch(e, op) ==
  IF e.kind = "BadRequestException" THEN e.msg
  ELSE IF e.kind = "ServiceUnavailableException"
    THEN "AI service is currently unavailable"
  ELSE IF e.status # 0 THEN
    CASE e.status = 401 -> "AI service authentication failed"
      [] e.status = 429 -> "AI service is experiencing high demand"
      [] e.status = 400 -> "Invalid request parameters"
      [] e.status = 500 -> "AI service encountered an internal error"
      [] OTHER -> "AI service error occurred"
  ELSE IF e.code = "ECONNREFUSED" \/ e.code = "ENOTFOUND"
    THEN "Unable to connect to AI service"
  ELSE FailedTo(op)

\* mutant: connection failures are reported as an unavailable service
serviceErrorHandler_ConnectionAsUnavailable(e, op) ==
  IF e.kind = "BadRequestException" THEN e.msg
  ELSE IF e.kind = "ServiceUnavailableException"
    THEN "AI service is currently unavailable"
  ELSE IF e.status # 0 THEN
    CASE e.status = 401 -> "AI service authentication failed"
      [] e.status = 429 -> "AI service is experiencing high demand"
      [] e.status = 400 -> "Invalid request parameters"
      [] e.status = 500 -> "AI service encountered an internal error"
      [] OTHER -> "AI service error occurred"
  ELSE IF e.code = "ECONNREFUSED" \/ e.code = "ENOTFOUND"
    THEN "AI service is currently unavailable"
  ELSE IF e.code = "ETIMEDOUT" \/ e.timeoutText
    THEN "AI service request timed out"
  ELSE FailedTo(op)

\* serviceErrorHandler(error, operationName): the message of the
\* BadRequestException it throws
serviceErrorHandler(e, op) ==
  IF e.kind = "BadRequestException" THEN e.msg
  ELSE IF e.kind = "ServiceUnavailableException"
    THEN "AI service is currently unavailable"
  ELSE IF e.status # 0 THEN
    CASE e.status = 401 -> "AI service authentication failed"
      [] e.status = 429 -> "AI service is experiencing high demand"
      [] e.status = 400 -> "Invalid request parameters"
      [] e.status = 500 -> "AI service encountered an internal error"
      [] OTHER -> "AI service error occurred"
  ELSE IF e.code = "ECONNREFUSED" \/ e.code = "ENOTFOUND"
    THEN "Unable to connect to AI service"
  ELSE IF e.code = "ETIMEDOUT" \/ e.timeoutText
    THEN "AI service request timed out"
  ELSE FailedTo(op)

\* The class of the taxonomy that each caller-visible message stands for.
ErrorClass(m) ==
  CASE m \in {"User ID is required", "Primary field is required",
              "Text is too long", "Invalid request parameters"} -> "InvalidInput"
    [] m = "User account not found" -> "UserNotFound"
    [] m = "Insufficient tokens to perform this operation" -> "InsufficientBalance"
    [] m = "AI service is currently unavailable" -> "CapabilityUnavailable"
    [] m = "AI service authentication failed" -> "Unauthorized"
    [] m = "AI service is experiencing high demand" -> "RateLimited"
    [] m \in {"Unable to connect to AI service",
              "AI service request timed out"} -> "TransientNetwork"
    [] OTHER -> "Unknown"

(* --------------------- FirestoreService.deductUserTokens --------------- *)
\* mutant: the balance is not compared with the cost
deductUserTokens_NoBalanceCheck(d, u, cost) ==
  LET i == FindDoc(d, u) IN
  IF i = 0
    THEN [docs |-> d, success |-> FALSE, message |-> "User not found",
          remainingTokens |-> 0]
  ELSE [docs |-> [d EXCEPT ![i].tokens = @ - cost], success |-> TRUE,
        message |-> "Tokens deducted", remainingTokens |-> d[i].tokens - cost]

\* mutant: a user without an entry is given one on the first spend
deductUserTokens_CreatesMissingUser(d, u, cost) ==
  LET i == FindDoc(d, u) IN
  IF i = 0
    THEN [docs |-> Append(d, [user_id |-> u, tokens |-> InitialGrant - cost]),
          success |-> TRUE, message |-> "Tokens deducted",
          remainingTokens |-> InitialGrant - cost]
  ELSE IF d[i].tokens < cost
    THEN [docs |-> d, success |-> FALSE, message |-> "Insufficient tokens",
          remainingTokens |-> d[i].tokens]
  ELSE [docs |-> [d EXCEPT ![i].tokens = @ - cost], success |-> TRUE,
        message |-> "Tokens deducted", remainingTokens |-> d[i].tokens - cost]

\* The ledger's spend: one transactional conditional decrement on the user's
\* document. Result: DeductTokenResultDto and the collection afterwards.
deductUserTokens(d, u, cost) ==
  LET i == FindDoc(d, u) IN
  IF i = 0
    THEN [docs |-> d, success |-> FALSE, message |-> "User not found",
          remainingTokens |-> 0]
  ELSE IF d[i].tokens < cost
    THEN [docs |-> d, success |-> FALSE, message |-> "Insufficient tokens",
          remainingTokens |-> d[i].tokens]
  ELSE [docs |-> [d EXCEPT ![i].tokens = @ - cost], success |-> TRUE,
        message |-> "Tokens deducted", remainingTokens |-> d[i].tokens - cost]

(* ------------------ AiService.deductTokensForOperation ----------------- *)
\* TOKEN_COSTS: every operation kind costs the same
TOKEN_COSTS(op) == TokenCost

\* mutant: the `if (!result.success)` branch is lost, every answered deduction
\* is reported as a success
deductTokensForOperation_NoFailureBranch(d, u, op, storeFails) ==
  IF storeFails
    THEN [docs |-> d, success |-> FALSE,
          message |-> "Failed to process token deduction", errorType |-> "SYSTEM_ERROR"]
  ELSE [docs |-> deductUserTokens(d, u, TOKEN_COSTS(op)).docs, success |-> TRUE,
        message |-> "Successfully deducted", errorType |-> "NONE"]

\* storeFails: firestoreService.deductUserTokens rejects (the catch branch)
deductTokensForOperation(d, u, op, storeFails) ==
  IF storeFails
    THEN [docs |-> d, success |-> FALSE,
          message |-> "Failed to process token deduction", errorType |-> "SYSTEM_ERROR"]
  ELSE
    LET r == deductUserTokens(d, u, TOKEN_COSTS(op)) IN
    IF ~r.success
      THEN [docs |-> r.docs, success |-> FALSE, message |-> r.message,
            errorType |-> IF r.message = "User not found" THEN "USER_NOT_FOUND"
                          ELSE IF r.message = "Insufficient tokens"
                            THEN "INSUFFICIENT_TOKENS"
                          ELSE "UNKNOWN_ERROR"]
    ELSE [docs |-> r.docs, success |-> TRUE, message |-> "Successfully deducted",
          errorType |-> "NONE"]

\* mutant: the INSUFFICIENT_TOKENS case is lost, the default case answers
tokenFailureMessage_NoInsufficientCase(tr) ==
  CASE tr.errorType = "USER_NOT_FOUND" -> "User account not found"
    [] tr.errorType = "SYSTEM_ERROR" -> "System error occurred while processing"
    [] OTHER -> tr.message

\* the switch on tokenResult.errorType in each operation
tokenFailureMessage(tr) ==
  CASE tr.errorType = "USER_NOT_FOUND" -> "User account not found"
    [] tr.errorType = "INSUFFICIENT_TOKENS" ->
         "Insufficient tokens to perform this operation"
    [] tr.errorType = "SYSTEM_ERROR" -> "System error occurred while processing"
    [] OTHER -> tr.message

\* mutant: the check of user_id is lost
validateRequired_NoUserCheck(r) ==
  IF r.len = 0 THEN "Primary field is required" ELSE "ok"

\* "Validate required fields": the first failing check, or "ok"
validateRequired(r) ==
  IF r.user_id = NoUser THEN "User ID is required"
  ELSE IF r.len = 0 THEN "Primary field is required"
  ELSE "ok"

\* textToSpeech's check of text.length, made after the deduction
textTooLong(r) == r.op = "tts" /\ r.len > MaxTextLength

(* -------------------- AiService: client initialisation ----------------- *)
\* mutant: without a key the run throws instead of returning
performInitialization_ThrowsWithoutKey ==
  IF ~apiKey
    THEN /\ inits' = Append(inits, "rejected")
         /\ isInitialized' = FALSE
    ELSE /\ inits' = Append(inits, "pending")
         /\ UNCHANGED isInitialized

\* performInitialization up to its first await: without a key it returns at
\* once (the promise resolves), with a key it suspends on import('openai')
performInitialization ==
  IF ~apiKey
    THEN /\ inits' = Append(inits, "resolved")
         /\ isInitialized' = FALSE
    ELSE /\ inits' = Append(inits, "pending")
         /\ UNCHANGED isInitialized

\* mutant: the cached promise is not consulted, every call starts a run
initializeOpenAI_NoCache ==
  /\ Len(inits) < MaxInits
  /\ performInitialization
  /\ initializationPromise' = Len(inits) + 1

\* initializeOpenAI: the cached promise if there is one, else a new run
initializeOpenAI ==
  IF initializationPromise # 0
    THEN UNCHANGED <<initializationPromise, inits, isInitialized>>
    ELSE /\ Len(inits) < MaxInits
         /\ performInitialization
         /\ initializationPromise' = Len(inits) + 1

\* constructor(configService, firestoreService) { this.initializeOpenAI(); }
Constructor ==
  /\ NoneSettled
  /\ ~constructed
  /\ constructed' = TRUE
  /\ initializeOpenAI
  /\ UNCHANGED <<apiKey, openai, constructions, docs, pc, req, awaited, result,
                 spends, invokes, docRef, burst, budget, trip, dto, messages>>

\* import('openai') settles for run i: the client is constructed, or the
\* import (or the constructor of the client) throws and the run rejects
ImportSettles(i, ok) ==
  /\ NoneSettled
  /\ i \in 1..Len(inits)
  /\ inits[i] = "pending"
  /\ IF ok
       THEN /\ openai' = "client"
            /\ isInitialized' = TRUE
            /\ constructions' = constructions + 1
            /\ inits' = [inits EXCEPT ![i] = "resolved"]
       ELSE /\ isInitialized' = FALSE
            /\ inits' = [inits EXCEPT ![i] = "rejected"]
            /\ UNCHANGED <<openai, constructions>>
  /\ UNCHANGED <<apiKey, constructed, initializationPromise, docs, pc, req,
                 awaited, result, spends, invokes, docRef, burst, budget, trip, dto, messages>>

(* ---------------------- AiService: the three operations ---------------- *)
\* The requests offered: one representative of each case the code tells
\* apart. A missing user id is rejected before the text is looked at; a
\* missing text is rejected before the user is looked up; only textToSpeech
\* looks at the length of a present text.
AiRequests ==
  {r \in [op : AiOps, user_id : Users \cup {NoUser}, len : TextLengths,
          tokens : {0}] :
     /\ r.user_id = NoUser => r.len = 1
     /\ r.len # 1 => r.user_id \in {NoUser, "u1"}
     /\ r.len > 1 => r.op = "tts"}

HealthRequests == {[op |-> "health", user_id |-> NoUser, len |-> 0, tokens |-> 0]}

\* a call is placed on the first free task: which task runs it is immaterial
FirstIdle(t) == pc[t] = "idle" /\ \A s \in 1..(t - 1) : pc[s] # "idle"

Success(m, v) == [success |-> TRUE, msg |-> m, value |-> v]
Failure(m) == [success |-> FALSE, msg |-> m, value |-> 0]

\* the operation settles: its promise resolves or rejects with `res`
Settle(t, res) ==
  /\ pc' = [pc EXCEPT ![t] = "done"]
  /\ result' = [result EXCEPT ![t] = res]

\* mutant: a missing client is not noticed
ensureFails_IgnoresMissingClient(p) == p # 0 /\ inits'[p] = "rejected"

\* ensureOpenAIInitialized has thrown: the awaited run rejected, or
\* this.openai is missing
ensureFails(p) ==
  IF p # 0 /\ inits'[p] = "rejected" THEN TRUE
  ELSE openai' = "null"

\* An operation's code from the end of `await this.ensureOpenAIInitialized()`
\* to its next await on I/O: the catch of a failed ensure, the validation of
\* the required fields, the call of deductTokensForOperation. healthCheck
\* only reports what ensure did.
ContinueAfterEnsure(t, r, p) ==
  IF r.op = "health"
    THEN Settle(t, Success(IF ensureFails(p) THEN "unhealthy" ELSE "healthy", 0))
  ELSE IF ensureFails(p)
    THEN Settle(t, Failure(serviceErrorHandler(ServiceUnavailableException, r.op)))
  ELSE IF validateRequired(r) # "ok"
    THEN Settle(t, Failure(serviceErrorHandler(
           BadRequestException(validateRequired(r)), r.op)))
  ELSE /\ pc' = [pc EXCEPT ![t] = "deduct"]
       /\ UNCHANGED result

\* enhancePrompt / generateResponse / textToSpeech / healthCheck is called.
\* Its first statement is `await this.ensureOpenAIInitialized()`: the call
\* suspends on a pending initialisation; past a settled one it runs on (an
\* await on a settled promise yields to no I/O callback).
Dispatch(t, r) ==
  /\ NoneSettled
  /\ constructed
  /\ FirstIdle(t)
  /\ budget > 0
  /\ r \in AiRequests \cup HealthRequests
  /\ budget' = budget - 1
  /\ req' = [req EXCEPT ![t] = r]
  /\ IF ~isInitialized
       THEN initializeOpenAI
       ELSE UNCHANGED <<initializationPromise, inits, isInitialized>>
  /\ UNCHANGED <<apiKey, constructed, openai, constructions, docs,
                 spends, invokes, docRef, burst, trip, dto, messages>>
  /\ LET p == IF ~isInitialized THEN initializationPromise' ELSE 0 IN
       IF p # 0 /\ inits'[p] = "pending"
         THEN /\ pc' = [pc EXCEPT ![t] = "ensure"]
              /\ awaited' = [awaited EXCEPT ![t] = p]
              /\ UNCHANGED result
         ELSE /\ ContinueAfterEnsure(t, r, p)
              /\ UNCHANGED awaited

\* the awaited initialisation has settled: the operation resumes
ResumeAfterEnsure(t) ==
  /\ NoneSettled
  /\ pc[t] = "ensure"
  /\ inits[awaited[t]] # "pending"
  /\ UNCHANGED <<svcVars, docs, req, spends, invokes, docRef, burst, budget, trip, dto, messages>>
  /\ ContinueAfterEnsure(t, req[t], awaited[t])
  /\ awaited' = [awaited EXCEPT ![t] = 0]

\* mutant: a failed deduction is not acted on
afterDeduct_IgnoresFailure(r, tr) ==
  IF textTooLong(r) THEN [next |-> "throw", msg |-> "Text is too long"]
  ELSE [next |-> "invoke", msg |-> "ok"]

\* what the operation does with tokenResult: throw, or go on to the capability
afterDeduct(r, tr) ==
  IF ~tr.success THEN [next |-> "throw", msg |-> tokenFailureMessage(tr)]
  ELSE IF textTooLong(r) THEN [next |-> "throw", msg |-> "Text is too long"]
  ELSE [next |-> "invoke", msg |-> "ok"]

\* the ledger answers the deduction; the operation resumes and runs to the
\* await on the capability call
DeductResolves(t, storeFails) ==
  /\ NoneSettled
  /\ pc[t] = "deduct"
  /\ LET tr == deductTokensForOperation(docs, req[t].user_id, req[t].op, storeFails)
         step == afterDeduct(req[t], tr)
     IN /\ docs' = tr.docs
        /\ spends' = [spends EXCEPT ![t] = IF tr.success THEN @ + 1 ELSE @]
        /\ IF step.next = "throw"
             THEN /\ Settle(t, Failure(serviceErrorHandler(
                         BadRequestException(step.msg), req[t].op)))
                  /\ UNCHANGED invokes
             ELSE /\ pc' = [pc EXCEPT ![t] = "capability"]
                  /\ invokes' = [invokes EXCEPT ![t] = @ + 1]
                  /\ UNCHANGED result
  /\ UNCHANGED <<svcVars, req, awaited, docRef, burst, budget, trip, dto, messages>>

\* mutant: an answer without content is handed on as it is
returned_NoFallback(op, hasContent) ==
  IF hasContent \/ op = "tts" THEN "content" ELSE "no content"

\* what the operation returns for the capability's answer: the content (the
\* audio buffer for tts), or `content || prompt`, or
\* `content || 'Unable to generate response'`
returned(op, hasContent) ==
  IF hasContent \/ op = "tts" THEN "content"
  ELSE IF op = "enhance" THEN "original prompt"
  ELSE "Unable to generate response"

\* the capability answers; without usable content the fallback is returned
CapabilityReturns(t, hasContent) ==
  /\ NoneSettled
  /\ pc[t] = "capability"
  /\ Settle(t, Success(returned(req[t].op, hasContent), 0))
  /\ UNCHANGED <<svcVars, docs, req, awaited, spends, invokes, docRef,
                 burst, budget, trip, dto, messages>>

\* mutant: a failed capability call drops the client handle
CapabilityFails_InvalidatesHandle(t, e) ==
  /\ NoneSettled
  /\ pc[t] = "capability"
  /\ e \in ProviderErrors
  /\ Settle(t, Failure(serviceErrorHandler(e, req[t].op)))
  /\ openai' = "null"
  /\ isInitialized' = FALSE
  /\ UNCHANGED <<apiKey, constructed, initializationPromise, inits,
                 constructions, docs, req, awaited, spends, invokes, docRef,
                 burst, budget, trip, dto, messages>>

\* mutant: a first provider error is answered by a second invocation
CapabilityFails_Retries(t, e) ==
  /\ NoneSettled
  /\ pc[t] = "capability"
  /\ e \in ProviderErrors
  /\ IF invokes[t] = 1
       THEN /\ invokes' = [invokes EXCEPT ![t] = @ + 1]
            /\ UNCHANGED <<pc, result>>
       ELSE /\ Settle(t, Failure(serviceErrorHandler(e, req[t].op)))
            /\ UNCHANGED invokes
  /\ UNCHANGED <<svcVars, docs, req, awaited, spends, docRef,
                 burst, budget, trip, dto, messages>>

\* the capability call rejects with a provider error
CapabilityFails(t, e) ==
  /\ NoneSettled
  /\ pc[t] = "capability"
  /\ e \in ProviderErrors
  /\ Settle(t, Failure(serviceErrorHandler(e, req[t].op)))
  /\ UNCHANGED <<svcVars, docs, req, awaited, spends, invokes, docRef,
                 burst, budget, trip, dto, messages>>

\* mutant: a failure of the service call is thrown on
controllerResponse_Rethrows(op, res) ==
  IF res.success
    THEN IF op = "tts"
           THEN [kind |-> "audio", success |-> TRUE, data |-> TRUE,
                 error |-> FALSE, message |-> "none", type |-> "none"]
           ELSE [kind |-> "envelope", success |-> TRUE, data |-> TRUE,
                 error |-> FALSE, message |-> "none", type |-> "none"]
    ELSE [kind |-> "fault", success |-> FALSE, data |-> FALSE,
          error |-> TRUE, message |-> res.msg, type |-> "BadRequestException"]

\* mutant: the envelope of a failure carries a fixed text, not the message
\* of the exception
controllerResponse_FixedMessage(op, res) ==
  IF res.success
    THEN IF op = "tts"
           THEN [kind |-> "audio", success |-> TRUE, data |-> TRUE,
                 error |-> FALSE, message |-> "none", type |-> "none"]
           ELSE [kind |-> "envelope", success |-> TRUE, data |-> TRUE,
                 error |-> FALSE, message |-> "none", type |-> "none"]
    ELSE [kind |-> "envelope", success |-> FALSE, data |-> FALSE,
          error |-> TRUE, message |-> FailedTo(op),
          type |-> "BadRequestException"]

\* AiController.enhancePrompt / generateResponse / textToSpeech: what is
\* sent to the HTTP caller for the outcome of the service call. A converted
\* text is sent as the audio bytes themselves.
controllerResponse(op, res) ==
  IF res.success
    THEN IF op = "tts"
           THEN [kind |-> "audio", success |-> TRUE, data |-> TRUE,
                 error |-> FALSE, message |-> "none", type |-> "none"]
           ELSE [kind |-> "envelope", success |-> TRUE, data |-> TRUE,
                 error |-> FALSE, message |-> "none", type |-> "none"]
    ELSE [kind |-> "envelope", success |-> FALSE, data |-> FALSE,
          error |-> TRUE, message |-> res.msg, type |-> "BadRequestException"]

\* the observer's tally after the outcome of task t: a call counts as a
\* successful spend when its deduction succeeded
Tally(t) ==
  IF spends[t] >= 1 THEN [burst EXCEPT !.ok = @ + spends[t]]
  ELSE IF result[t].msg = "Insufficient tokens to perform this operation"
    THEN [burst EXCEPT !.insufficient = @ + 1]
  ELSE [burst EXCEPT !.other = @ + 1]

\* the observer of a round trip after the outcome of task t: a successful
\* createUser(u) opens a trip, which goes on while the calls that follow are
\* getUserToken(u), a spend of 1 by u, getUserToken(u), in that order
Observe(t) ==
  LET r == req[t]
      out == [op |-> r.op, success |-> result[t].success,
              value |-> result[t].value]
      n == Len(trip.seen)
      expected == CASE n = 1 -> "getUserToken"
                    [] n = 2 -> "deductUserTokens"
                    [] n = 3 -> "getUserToken"
                    [] OTHER -> "none"
  IN IF r.user_id = trip.user /\ r.op = expected /\ (n = 2 => r.tokens = 1)
       THEN [trip EXCEPT !.seen = Append(@, out)]
     ELSE IF r.op = "createUser" /\ result[t].success
       THEN [trip EXCEPT !.user = r.user_id, !.seen = <<out>>]
     ELSE [trip EXCEPT !.user = NoUser, !.seen = << >>]

\* the caller takes the outcome; the task can issue another call
Collect(t) ==
  /\ pc[t] = "done"
  /\ pc' = [pc EXCEPT ![t] = "idle"]
  /\ req' = [req EXCEPT ![t] = NoReq]
  /\ result' = [result EXCEPT ![t] = NoResult]
  /\ spends' = [spends EXCEPT ![t] = 0]
  /\ invokes' = [invokes EXCEPT ![t] = 0]
  /\ docRef' = [docRef EXCEPT ![t] = 0]
  /\ burst' = IF burst.on THEN Tally(t) ELSE burst
  /\ trip' = IF trip.on THEN Observe(t) ELSE trip
  /\ UNCHANGED <<svcVars, docs, awaited, budget, dto, messages>>

(* --------------------- FirestoreService: ledger calls ------------------ *)
LedgerRequests ==
  [op : {"createUser", "getUserToken"}, user_id : Users, len : {0}, tokens : {0}]
    \cup [op : {"updateUserToken"}, user_id : Users, len : {0},
          tokens : TokenValues]

\* createUser / updateUserToken / getUserToken is called and suspends on its
\* first query
StartLedgerCall(t, r) ==
  /\ NoneSettled
  /\ FirstIdle(t)
  /\ budget > 0
  /\ r \in LedgerRequests
  /\ budget' = budget - 1
  /\ req' = [req EXCEPT ![t] = r]
  /\ pc' = [pc EXCEPT ![t] = CASE r.op = "createUser" -> "cu_exists"
                               [] r.op = "updateUserToken" -> "up_exists"
                               [] OTHER -> "get"]
  /\ UNCHANGED <<svcVars, docs, awaited, result, spends, invokes, docRef,
                 burst, trip, dto, messages>>

\* mutant: the existence check is ignored
CreateUserExists_NoCheck(t) ==
  /\ NoneSettled
  /\ pc[t] = "cu_exists"
  /\ pc' = [pc EXCEPT ![t] = "cu_add"]
  /\ UNCHANGED <<svcVars, docs, req, awaited, result, spends, invokes, docRef,
                 burst, budget, trip, dto, messages>>

\* createUser: `await this.userExists(...)` answers
CreateUserExists(t) ==
  /\ NoneSettled
  /\ pc[t] = "cu_exists"
  /\ IF userExists(docs, req[t].user_id)
       THEN Settle(t, Failure("Failed to create user: User already exists"))
       ELSE /\ pc' = [pc EXCEPT ![t] = "cu_add"]
            /\ UNCHANGED result
  /\ UNCHANGED <<svcVars, docs, req, awaited, spends, invokes, docRef,
                 burst, budget, trip, dto, messages>>

\* mutant: the new user is given no tokens
newUserDocument_ZeroGrant(u) == [user_id |-> u, tokens |-> 0]

\* the document createUser adds
newUserDocument(u) == [user_id |-> u, tokens |-> InitialGrant]

\* createUser: collection('user_token').add(...) answers
CreateUserAdd(t) ==
  /\ NoneSettled
  /\ pc[t] = "cu_add"
  /\ Len(docs) < MaxDocs
  /\ docs' = Append(docs, newUserDocument(req[t].user_id))
  /\ Settle(t, Success("created", Len(docs) + 1))
  /\ UNCHANGED <<svcVars, req, awaited, spends, invokes, docRef, burst,
                 budget, trip, dto, messages>>

\* updateUserToken: `await this.userExists(...)` answers
UpdateExists(t) ==
  /\ NoneSettled
  /\ pc[t] = "up_exists"
  /\ IF ~userExists(docs, req[t].user_id)
       THEN Settle(t, Failure("Failed to update user token: User not found"))
       ELSE /\ pc' = [pc EXCEPT ![t] = "up_query"]
            /\ UNCHANGED result
  /\ UNCHANGED <<svcVars, docs, req, awaited, spends, invokes, docRef,
                 burst, budget, trip, dto, messages>>

\* updateUserToken: the query for the user's document answers
UpdateQuery(t) ==
  /\ NoneSettled
  /\ pc[t] = "up_query"
  /\ IF FindDoc(docs, req[t].user_id) = 0
       THEN /\ Settle(t, Failure("Failed to update user token: User not found"))
            /\ UNCHANGED docRef
       ELSE /\ pc' = [pc EXCEPT ![t] = "up_update"]
            /\ docRef' = [docRef EXCEPT ![t] = FindDoc(docs, req[t].user_id)]
            /\ UNCHANGED result
  /\ UNCHANGED <<svcVars, docs, req, awaited, spends, invokes, burst,
                 budget, trip, dto, messages>>

\* mutant: a negative value is written as 0
writtenTokens_Clamped(r) == IF r.tokens < 0 THEN 0 ELSE r.tokens

\* the value updateUserToken writes: updateData.tokens as given
writtenTokens(r) == r.tokens

\* mutant: the update lands on the first document of the collection
UpdateWrite_FirstDocument(t) ==
  /\ NoneSettled
  /\ pc[t] = "up_update"
  /\ docs' = [docs EXCEPT ![1].tokens = writtenTokens(req[t])]
  /\ Settle(t, Success("updated", writtenTokens(req[t])))
  /\ UNCHANGED <<svcVars, req, awaited, spends, invokes, docRef, burst,
                 budget, trip, dto, messages>>

\* updateUserToken: doc.ref.update({tokens: updateData.tokens}) answers
UpdateWrite(t) ==
  /\ NoneSettled
  /\ pc[t] = "up_update"
  /\ docs' = [docs EXCEPT ![docRef[t]].tokens = writtenTokens(req[t])]
  /\ Settle(t, Success("updated", writtenTokens(req[t])))
  /\ UNCHANGED <<svcVars, req, awaited, spends, invokes, docRef, burst,
                 budget, trip, dto, messages>>

\* getUserToken: the query answers; null (no document) is "User not found"
GetUserToken(t) ==
  /\ NoneSettled
  /\ pc[t] = "get"
  /\ LET i == FindDoc(docs, req[t].user_id) IN
       IF i = 0 THEN Settle(t, Failure("User not found"))
       ELSE Settle(t, Success("retrieved", docs[i].tokens))
  /\ UNCHANGED <<svcVars, docs, req, awaited, spends, invokes, docRef,
                 burst, budget, trip, dto, messages>>

\* the direct spends offered to the ledger: spend(u, cost) with cost >= 1
SpendCalls ==
  [op : {"deductUserTokens"}, user_id : Users, len : {0}, tokens : 1..MaxCost]

\* deductUserTokens(userId, cost) is called and suspends on the store
StartSpend(t, r) ==
  /\ NoneSettled
  /\ FirstIdle(t)
  /\ budget > 0
  /\ r \in SpendCalls
  /\ budget' = budget - 1
  /\ req' = [req EXCEPT ![t] = r]
  /\ pc' = [pc EXCEPT ![t] = "spend"]
  /\ UNCHANGED <<svcVars, docs, awaited, result, spends, invokes, docRef,
                 burst, trip, dto, messages>>

\* the store answers the spend: DeductTokenResultDto
SpendAnswers(t) ==
  /\ NoneSettled
  /\ pc[t] = "spend"
  /\ LET r == deductUserTokens(docs, req[t].user_id, req[t].tokens) IN
       /\ docs' = r.docs
       /\ Settle(t, IF r.success THEN Success(r.message, r.remainingTokens)
                    ELSE Failure(r.message))
  /\ UNCHANGED <<svcVars, req, awaited, spends, invokes, docRef, burst,
                 budget, trip, dto, messages>>

(* ------------------- instruction catalog, prompt assembly -------------- *)
\* JavaScript values the catalog and the assembly handle
undefined == [type |-> "undefined"]
Str(s) == [type |-> "string", value |-> s]
Inherited(k) == [type |-> "object", value |-> k]

\* if (v), v || w: undefined and '' are falsy, objects and functions truthy
Truthy(v) == v # undefined /\ v # Str("")
Or(v, w) == IF Truthy(v) THEN v ELSE w

\* enum EnhancementType, enum ResponseType: the same seven values
EnhancementType ==
  {"general", "educational", "code", "creative", "analytical",
   "step-by-step", "fun"}
ResponseType == EnhancementType

\* members every object literal inherits from Object.prototype
ObjectPrototype == {"constructor", "toString"}

\* the object literals of the two lookups, each instruction by its opening
enhancementPrompts ==
  [k \in EnhancementType |->
     CASE k = "general" -> "You are an expert at improving prompts"
       [] k = "educational" -> "You are an educational expert who enhances"
       [] k = "code" -> "You are a programming expert who enhances"
       [] k = "creative" -> "You are a creative writing expert"
       [] k = "analytical" -> "You are an analytical expert who enhances"
       [] k = "step-by-step" -> "You are an expert at creating step-by-step"
       [] k = "fun" -> "You are an expert at making prompts more engaging"]

responsePrompts ==
  [k \in ResponseType |->
     CASE k = "general" -> "You are a helpful AI assistant"
       [] k = "educational" -> "You are an educational expert that provides"
       [] k = "code" -> "You are a programming expert that provides"
       [] k = "creative" -> "You are a creative expert that provides"
       [] k = "analytical" -> "You are an analytical expert that provides"
       [] k = "step-by-step" -> "You are an expert at providing clear"
       [] k = "fun" -> "You are an entertaining AI"]

\* prompts[key]: an own property, else a member inherited from
\* Object.prototype, else undefined
Member(prompts, key) ==
  IF key.type = "string" /\ key.value \in DOMAIN prompts
    THEN Str(prompts[key.value])
  ELSE IF key.type = "string" /\ key.value \in ObjectPrototype
    THEN Inherited(key.value)
  ELSE undefined

getEnhancementSystemPrompt(enhancementType) ==
  Or(Member(enhancementPrompts, enhancementType),
     Str(enhancementPrompts["general"]))

getResponseSystemPrompt(responseType) ==
  Or(Member(responsePrompts, responseType), Str(responsePrompts["general"]))

\* the user content is the concatenation of these pieces, in this order
Section(label, v) == IF Truthy(v) THEN <<[label |-> label, text |-> v]>> ELSE << >>

\* mutant: the context heading is rendered for an empty context too
buildEnhancementUserPrompt_RendersEmptyContext(prompt, context, targetAudience) ==
  <<[label |-> "Please enhance the following prompt", text |-> prompt]>>
  \o (IF context # undefined
        THEN <<[label |-> "Context", text |-> context]>> ELSE << >>)
  \o Section("Target Audience", targetAudience)
  \o <<[label |-> "Please provide an enhanced version", text |-> undefined]>>

buildEnhancementUserPrompt(prompt, context, targetAudience) ==
  <<[label |-> "Please enhance the following prompt", text |-> prompt]>>
  \o Section("Context", context)
  \o Section("Target Audience", targetAudience)
  \o <<[label |-> "Please provide an enhanced version", text |-> undefined]>>

buildResponseUserPrompt(content, context, tone, maxLength) ==
  <<[label |-> "Please generate a response based on the following content",
     text |-> content]>>
  \o Section("Context", context)
  \o Section("Tone", tone)
  \o Section("Maximum Length", maxLength)
  \o <<[label |-> "Please provide a relevant and helpful response",
        text |-> undefined]>>

NoDto ==
  [op |-> "none", subType |-> undefined, primary |-> undefined,
   context |-> undefined, targetAudience |-> undefined, tone |-> undefined,
   maxLength |-> undefined]
NoMessages == [system |-> undefined, user |-> << >>]

\* enhancePrompt after the spend: the two messages handed to the client
AssembleEnhancement ==
  /\ dto.op = "enhance" /\ messages = NoMessages
  /\ messages' =
       [system |-> getEnhancementSystemPrompt(Or(dto.subType, Str("general"))),
        user |-> buildEnhancementUserPrompt(dto.primary, dto.context,
                                            dto.targetAudience)]
  /\ UNCHANGED <<svcVars, docs, taskVars, burst, budget, trip, dto>>

\* generateResponse after the spend: the two messages handed to the client
AssembleResponse ==
  /\ dto.op = "generate" /\ messages = NoMessages
  /\ messages' =
       [system |-> getResponseSystemPrompt(Or(dto.subType, Str("general"))),
        user |-> buildResponseUserPrompt(dto.primary, dto.context, dto.tone,
                                         dto.maxLength)]
  /\ UNCHANGED <<svcVars, docs, taskVars, burst, budget, trip, dto>>


(* --------------------------- specifications ---------------------------- *)
\* ledgers the service can be started on: empty, or holding a user who has
\* one token left
InitialLedgers == {<< >>, <<[user_id |-> "u1", tokens |-> 1]>>}

Init ==
  /\ apiKey \in BOOLEAN
  /\ constructed = FALSE
  /\ openai = "null"
  /\ isInitialized = FALSE
  /\ initializationPromise = 0
  /\ inits = << >>
  /\ constructions = 0
  /\ docs \in InitialLedgers
  /\ pc = [t \in AllTasks |-> "idle"]
  /\ req = [t \in AllTasks |-> NoReq]
  /\ awaited = [t \in AllTasks |-> 0]
  /\ result = [t \in AllTasks |-> NoResult]
  /\ spends = [t \in AllTasks |-> 0]
  /\ invokes = [t \in AllTasks |-> 0]
  /\ docRef = [t \in AllTasks |-> 0]
  /\ burst = NoBurst
  /\ trip = NoTrip
  /\ dto = NoDto
  /\ messages = NoMessages
  /\ budget = MaxOps

Next ==
  \/ Constructor
  \/ \E i \in 1..MaxInits, ok \in BOOLEAN : ImportSettles(i, ok)
  \/ \E t \in Tasks, r \in AiRequests \cup HealthRequests : Dispatch(t, r)
  \/ \E t \in Tasks : ResumeAfterEnsure(t)
  \/ \E t \in Tasks, storeFails \in BOOLEAN : DeductResolves(t, storeFails)
  \/ \E t \in Tasks, hasContent \in BOOLEAN : CapabilityReturns(t, hasContent)
  \/ \E t \in Tasks, e \in ProviderErrors : CapabilityFails(t, e)
  \/ \E t \in Tasks : Collect(t)
  \/ \E t \in Tasks, r \in LedgerRequests : StartLedgerCall(t, r)
  \/ \E t \in Tasks : CreateUserExists(t)
  \/ \E t \in Tasks : CreateUserAdd(t)
  \/ \E t \in Tasks : UpdateExists(t)
  \/ \E t \in Tasks : UpdateQuery(t)
  \/ \E t \in Tasks : UpdateWrite(t)
  \/ \E t \in Tasks : GetUserToken(t)

Spec == Init /\ [][Next]_vars

\* The dispatcher with its client factory, on a ledger that earlier calls
\* have left: empty, or holding user u1 with no token or one token.
DispatchLedgers ==
  {<< >>} \cup {<<[user_id |-> "u1", tokens |-> b]>> : b \in 0..1}

InitDispatch ==
  /\ apiKey \in BOOLEAN
  /\ constructed = FALSE
  /\ openai = "null"
  /\ isInitialized = FALSE
  /\ initializationPromise = 0
  /\ inits = << >>
  /\ constructions = 0
  /\ docs \in DispatchLedgers
  /\ pc = [t \in AllTasks |-> "idle"]
  /\ req = [t \in AllTasks |-> NoReq]
  /\ awaited = [t \in AllTasks |-> 0]
  /\ result = [t \in AllTasks |-> NoResult]
  /\ spends = [t \in AllTasks |-> 0]
  /\ invokes = [t \in AllTasks |-> 0]
  /\ docRef = [t \in AllTasks |-> 0]
  /\ burst = NoBurst
  /\ trip = NoTrip
  /\ dto = NoDto
  /\ messages = NoMessages
  /\ budget = MaxOps

NextDispatch ==
  \/ Constructor
  \/ \E i \in 1..MaxInits, ok \in BOOLEAN : ImportSettles(i, ok)
  \/ \E t \in Tasks, r \in AiRequests \cup HealthRequests : Dispatch(t, r)
  \/ \E t \in Tasks : ResumeAfterEnsure(t)
  \/ \E t \in Tasks, storeFails \in BOOLEAN : DeductResolves(t, storeFails)
  \/ \E t \in Tasks, hasContent \in BOOLEAN : CapabilityReturns(t, hasContent)
  \/ \E t \in Tasks, e \in ProviderErrors : CapabilityFails(t, e)
  \/ \E t \in Tasks : Collect(t)

SpecDispatch == InitDispatch /\ [][NextDispatch]_vars

\* A burst of concurrent spends: the client is ready, user u1 holds B tokens,
\* and up to MaxSpenders callers each issue one valid request for u1.
SpendRequests == {r \in AiRequests : r.user_id = "u1" /\ r.len = 1}

InitSpend ==
  /\ apiKey = TRUE
  /\ constructed = TRUE
  /\ openai = "client"
  /\ isInitialized = TRUE
  /\ initializationPromise = 1
  /\ inits = <<"resolved">>
  /\ constructions = 1
  /\ \E b \in 0..MaxStartBalance :
       /\ docs = <<[user_id |-> "u1", tokens |-> b]>>
       /\ burst = [on |-> TRUE, start |-> b, ok |-> 0, insufficient |-> 0,
                   other |-> 0]
  /\ pc = [t \in AllTasks |-> "idle"]
  /\ req = [t \in AllTasks |-> NoReq]
  /\ awaited = [t \in AllTasks |-> 0]
  /\ result = [t \in AllTasks |-> NoResult]
  /\ spends = [t \in AllTasks |-> 0]
  /\ invokes = [t \in AllTasks |-> 0]
  /\ docRef = [t \in AllTasks |-> 0]
  /\ budget = MaxSpenders
  /\ trip = NoTrip
  /\ dto = NoDto
  /\ messages = NoMessages

NextSpend ==
  \/ \E t \in Spenders, r \in SpendRequests : Dispatch(t, r)
  \/ \E t \in Spenders : DeductResolves(t, FALSE)
  \/ \E t \in Spenders, hasContent \in BOOLEAN : CapabilityReturns(t, hasContent)
  \/ \E t \in Spenders : Collect(t)

SpecSpend == InitSpend /\ [][NextSpend]_vars

\* The assembly of one request that has passed validation and the spend:
\* the sub-type is missing, empty, known, unknown, or the name of an
\* inherited member; every optional field is missing, empty or a text.
SubTypes ==
  {undefined, Str("")} \cup {Str(k) : k \in EnhancementType}
  \cup {Str("unknown")} \cup {Str(k) : k \in ObjectPrototype}
PrimaryTexts == {Str("p1"), Str("p2")}
OptionalTexts == {undefined, Str(""), Str("o1")}

DtoInputs ==
  [op : {"enhance"}, subType : SubTypes, primary : PrimaryTexts,
   context : OptionalTexts, targetAudience : OptionalTexts,
   tone : {undefined}, maxLength : {undefined}]
  \cup
  [op : {"generate"}, subType : SubTypes, primary : PrimaryTexts,
   context : OptionalTexts, targetAudience : {undefined},
   tone : OptionalTexts, maxLength : OptionalTexts]

InitAssembly ==
  /\ apiKey = TRUE
  /\ constructed = TRUE
  /\ openai = "client"
  /\ isInitialized = TRUE
  /\ initializationPromise = 1
  /\ inits = <<"resolved">>
  /\ constructions = 1
  /\ docs = << >>
  /\ pc = [t \in AllTasks |-> "idle"]
  /\ req = [t \in AllTasks |-> NoReq]
  /\ awaited = [t \in AllTasks |-> 0]
  /\ result = [t \in AllTasks |-> NoResult]
  /\ spends = [t \in AllTasks |-> 0]
  /\ invokes = [t \in AllTasks |-> 0]
  /\ docRef = [t \in AllTasks |-> 0]
  /\ burst = NoBurst
  /\ budget = 0
  /\ trip = NoTrip
  /\ dto \in DtoInputs
  /\ messages = NoMessages

NextAssembly ==
  \/ AssembleEnhancement
  \/ AssembleResponse

SpecAssembly == InitAssembly /\ [][NextAssembly]_vars

\* Two users side by side: the client is ready, the ledger holds any of the
\* two users with one token or none, and concurrent callers issue ledger
\* calls and valid operation requests for either user.
SharedLedgers ==
  {<< >>, <<[user_id |-> "u1", tokens |-> 1]>>,
   <<[user_id |-> "u2", tokens |-> 1]>>,
   <<[user_id |-> "u1", tokens |-> 1], [user_id |-> "u2", tokens |-> 0]>>}
SharedRequests == {r \in AiRequests : r.user_id \in Users /\ r.len = 1}

InitShared ==
  /\ apiKey = TRUE
  /\ constructed = TRUE
  /\ openai = "client"
  /\ isInitialized = TRUE
  /\ initializationPromise = 1
  /\ inits = <<"resolved">>
  /\ constructions = 1
  /\ docs \in SharedLedgers
  /\ pc = [t \in AllTasks |-> "idle"]
  /\ req = [t \in AllTasks |-> NoReq]
  /\ awaited = [t \in AllTasks |-> 0]
  /\ result = [t \in AllTasks |-> NoResult]
  /\ spends = [t \in AllTasks |-> 0]
  /\ invokes = [t \in AllTasks |-> 0]
  /\ docRef = [t \in AllTasks |-> 0]
  /\ burst = NoBurst
  /\ budget = MaxOps
  /\ trip = NoTrip
  /\ dto = NoDto
  /\ messages = NoMessages

NextShared ==
  \/ \E t \in Tasks, r \in SharedRequests : Dispatch(t, r)
  \/ \E t \in Tasks, storeFails \in BOOLEAN : DeductResolves(t, storeFails)
  \/ \E t \in Tasks : CapabilityReturns(t, TRUE)
  \/ \E t \in Tasks, r \in LedgerRequests : StartLedgerCall(t, r)
  \/ \E t \in Tasks, r \in SpendCalls : StartSpend(t, r)
  \/ \E t \in Tasks : CreateUserExists(t)
  \/ \E t \in Tasks : CreateUserAdd(t)
  \/ \E t \in Tasks : UpdateExists(t)
  \/ \E t \in Tasks : UpdateQuery(t)
  \/ \E t \in Tasks : UpdateWrite(t)
  \/ \E t \in Tasks : GetUserToken(t)
  \/ \E t \in Tasks : SpendAnswers(t)
  \/ \E t \in Tasks : Collect(t)

SpecShared == InitShared /\ [][NextShared]_vars

(* ------------------------------- claims -------------------------------- *)
\* the balance stored for user u (no document: none, written 0)
Balance(u) == IF FindDoc(docs, u) = 0 THEN 0 ELSE docs[FindDoc(docs, u)].tokens

RECURSIVE SumTo(_, _)
SumTo(f, n) == IF n = 0 THEN 0 ELSE f[n] + SumTo(f, n - 1)

Quiescent == \A t \in AllTasks : pc[t] = "idle"

Ended(t) == pc[t] = "done" /\ req[t].op \in AiOps
Class(t) == ErrorClass(result[t].msg)
Failed(t, class) == ~result[t].success /\ Class(t) = class
\* the request's user identifier or primary field is missing or empty
Invalid(t) == req[t].user_id = NoUser \/ req[t].len = 0

\* C2 - Balance invariant: the stored balance of every ledger entry is >= 0.
C2_BalanceNonNegative == \A i \in 1..Len(docs) : docs[i].tokens >= 0

C4_LongTextNotCharged ==
  \A t \in Tasks :
    Ended(t) /\ req[t].op = "tts" /\ req[t].len > MaxTextLength
             /\ Failed(t, "InvalidInput") =>
      spends[t] = 0

\* C5 - Ledger failure short-circuits: a request whose spend did not succeed
\* never invokes the capability.
C5_NoInvokeWithoutSpend ==
  \A t \in Tasks : spends[t] = 0 => invokes[t] = 0 /\ pc[t] # "capability"

\* C5 witness: a request has ended on a ledger failure (the store raised an
\* error) without an invocation
C5_Witness ==
  \E t \in Tasks :
    /\ Ended(t) /\ result[t].msg = "System error occurred while processing"
    /\ spends[t] = 0 /\ invokes[t] = 0

\* an enhance request with valid fields by a user whose balance is 0 has ended
\* without a spend of its own, the ledger store having answered it
ZeroBalanceEnhance(t) ==
  /\ Ended(t) /\ req[t].op = "enhance" /\ ~Invalid(t)
  /\ userExists(docs, req[t].user_id) /\ Balance(req[t].user_id) = 0
  /\ spends[t] = 0
  /\ result[t].msg # "System error occurred while processing"

TimeoutErrors ==
  {e \in ProviderErrors : e.status = 0 /\ (e.code = "ETIMEDOUT" \/ e.timeoutText)}

\* C8 - Scenario D, no refund: a capability invocation that fails with a
\* timeout after a successful spend ends the request with TransientNetwork,
\* the ledger keeping the charge; no step of the dispatcher increases a
\* balance, and no step after the spend changes the ledger.
C8_NoRefund ==
  [][/\ Len(docs') = Len(docs)
     /\ \A i \in 1..Len(docs) : docs'[i].tokens <= docs[i].tokens
     /\ \A t \in Tasks :
          /\ pc[t] = "capability" => spends[t] = 1 /\ docs' = docs
          /\ \A e \in TimeoutErrors :
               CapabilityFails(t, e) =>
                 /\ ~result'[t].success
                 /\ ErrorClass(result'[t].msg) = "TransientNetwork"
                 /\ spends'[t] = 1]_vars

\* C8 witness: a request has ended on a timeout, its token spent
C8_Witness ==
  \E t \in Tasks :
    /\ Ended(t) /\ result[t].msg = "AI service request timed out"
    /\ spends[t] = 1 /\ req[t].user_id = "u1" /\ Balance("u1") = 0

\* C9 - Bounded response: a request whose capability invocation is pending
\* eventually ends.
C9_BoundedResponse ==
  \A t \in Tasks : (pc[t] = "capability") ~> (pc[t] = "done")

\* C10 - Single-flight: at most one initialisation run and one client
\* construction per process, and every caller suspended in ensureReady
\* awaits that one run.
C10_SingleFlight ==
  /\ Len(inits) <= 1
  /\ constructions <= 1
  /\ initializationPromise \in {0, 1}
  /\ constructed => initializationPromise = 1
  /\ \A t \in Tasks : pc[t] = "ensure" => awaited[t] = 1

\* C10 witness: two callers wait on the run the constructor started
C10_Witness ==
  /\ Len(inits) = 1 /\ inits[1] = "pending"
  /\ \E t1, t2 \in Tasks : t1 # t2 /\ pc[t1] = "ensure" /\ pc[t2] = "ensure"

\* The dispatcher under the scheduling the event loop gives: every
\* continuation that can run does run, the import and the ledger store
\* answer; nothing makes the capability answer.
FairDispatch ==
  /\ SpecDispatch
  /\ WF_vars(Constructor)
  /\ WF_vars(\E i \in 1..MaxInits, ok \in BOOLEAN : ImportSettles(i, ok))
  /\ \A t \in Tasks :
       /\ WF_vars(ResumeAfterEnsure(t))
       /\ WF_vars(\E storeFails \in BOOLEAN : DeductResolves(t, storeFails))
       /\ WF_vars(Collect(t))

CredentialAppears ==
  /\ NoneSettled
  /\ constructed
  /\ ~apiKey
  /\ apiKey' = TRUE
  /\ UNCHANGED <<constructed, openai, isInitialized, initializationPromise,
                 inits, constructions, docs, pc, req, awaited, result, spends,
                 invokes, docRef, burst, budget, trip, dto, messages>>

NextCredential ==
  \/ NextDispatch
  \/ CredentialAppears

\* the dispatcher in a process whose credential may be configured late
SpecCredential == InitDispatch /\ [][NextCredential]_vars

\* C12 - Retry after missing credential: once the credential is configured
\* (and no import of the client library has failed), a request that ends
\* does not end with CapabilityUnavailable: the later ensureReady constructs
\* the client and succeeds.
C12_RetryAfterCredential ==
  apiKey /\ (\A i \in 1..Len(inits) : inits[i] # "rejected") =>
    \A t \in Tasks :
      Ended(t) => ~Failed(t, "CapabilityUnavailable")

\* C13 - Ready is stable: once the client has been constructed, every step
\* keeps the handle, the ready flag and the single construction; no later
\* call waits for or starts an initialisation; and no request that ends
\* afterwards ends with CapabilityUnavailable (the health probe answers
\* "healthy").
C13_ReadyIsStable ==
  [][openai = "client" =>
       /\ openai' = "client"
       /\ isInitialized /\ isInitialized'
       /\ constructions = 1 /\ constructions' = 1
       /\ inits' = inits
       /\ initializationPromise' = initializationPromise
       /\ \A t \in Tasks :
            /\ pc[t] # "ensure" => pc'[t] # "ensure"
            /\ pc[t] # "done" /\ pc'[t] = "done" =>
                 IF req'[t].op = "health"
                   THEN result'[t].msg = "healthy"
                   ELSE ErrorClass(result'[t].msg) # "CapabilityUnavailable"]_vars

\* C13 witness: with the client constructed, a request has failed at the
\* capability and the handle is still there
C13_Witness ==
  /\ openai = "client" /\ isInitialized /\ constructions = 1
  /\ \E t \in Tasks : Ended(t) /\ Failed(t, "Unauthorized")

\* The ledger used by one caller, one call after the other: createUser,
\* getUserToken, updateUserToken and direct spends, in any order.
SeqOps == MaxOps + 2

InitLedger ==
  /\ apiKey \in BOOLEAN
  /\ constructed = FALSE
  /\ openai = "null"
  /\ isInitialized = FALSE
  /\ initializationPromise = 0
  /\ inits = << >>
  /\ constructions = 0
  /\ docs \in InitialLedgers
  /\ pc = [t \in AllTasks |-> "idle"]
  /\ req = [t \in AllTasks |-> NoReq]
  /\ awaited = [t \in AllTasks |-> 0]
  /\ result = [t \in AllTasks |-> NoResult]
  /\ spends = [t \in AllTasks |-> 0]
  /\ invokes = [t \in AllTasks |-> 0]
  /\ docRef = [t \in AllTasks |-> 0]
  /\ burst = NoBurst
  /\ budget = SeqOps
  /\ trip = [on |-> TRUE, user |-> NoUser, seen |-> << >>]
  /\ dto = NoDto
  /\ messages = NoMessages

NextLedger ==
  \/ \E r \in LedgerRequests : StartLedgerCall(1, r)
  \/ \E r \in SpendCalls : StartSpend(1, r)
  \/ CreateUserExists(1)
  \/ CreateUserAdd(1)
  \/ UpdateExists(1)
  \/ UpdateQuery(1)
  \/ UpdateWrite(1)
  \/ GetUserToken(1)
  \/ SpendAnswers(1)
  \/ Collect(1)

SpecLedger == InitLedger /\ [][NextLedger]_vars

\* the class each message of the ledger stands for
LedgerErrorClass(m) ==
  CASE m \in {"User not found",
              "Failed to update user token: User not found"} -> "NotFound"
    [] m = "Insufficient tokens" -> "InsufficientBalance"
    [] m = "Failed to create user: User already exists" -> "AlreadyExists"
    [] OTHER -> "Unknown"

\* C14 - Sequential spend semantics: a spend(u, cost) that is answered fails
\* with NotFound when u has no entry and with InsufficientBalance when u's
\* balance is below the cost, changing nothing in both cases; otherwise it
\* takes exactly cost from u's balance, leaves every other entry alone and
\* returns the balance now stored. The dispatcher's deduction reports the
\* same three outcomes for the same ledger states.
C14_SequentialSpend ==
  [][/\ \A u \in Users, op \in AiOps :
          LET tr == deductTokensForOperation(docs, u, op, FALSE) IN
            /\ tr.errorType = "USER_NOT_FOUND" <=> ~userExists(docs, u)
            /\ tr.errorType = "INSUFFICIENT_TOKENS" <=>
                 userExists(docs, u) /\ Balance(u) < TokenCost
            /\ tr.success <=> userExists(docs, u) /\ Balance(u) >= TokenCost
     /\ pc[1] = "spend" /\ pc'[1] = "done" =>
          LET u == req[1].user_id
              cost == req[1].tokens
              i == FindDoc(docs, u)
          IN IF i = 0
               THEN /\ ~result'[1].success
                    /\ LedgerErrorClass(result'[1].msg) = "NotFound"
                    /\ docs' = docs
             ELSE IF docs[i].tokens < cost
               THEN /\ ~result'[1].success
                    /\ LedgerErrorClass(result'[1].msg) = "InsufficientBalance"
                    /\ docs' = docs
             ELSE /\ result'[1].success
                  /\ docs' = [docs EXCEPT ![i].tokens = docs[i].tokens - cost]
                  /\ result'[1].value = docs'[i].tokens]_vars

\* C14 witness: a spend of more than one token has succeeded on the balance
\* a new user was given, returning what is stored
C14_Witness ==
  /\ pc[1] = "done" /\ req[1].op = "deductUserTokens" /\ req[1].tokens = MaxCost
  /\ result[1].success
  /\ result[1].value = InitialGrant - MaxCost
  /\ Balance(req[1].user_id) = result[1].value

createUserResponse(u, res) ==
  IF res.success
    THEN [success |-> TRUE, message |-> "User created successfully with 0 tokens",
          user_id |-> u, tokens |-> ReportedGrant]
    ELSE [success |-> FALSE, message |-> res.msg, user_id |-> u, tokens |-> 0]

\* C16 - New users start with 0 tokens: after a successful createUser(u) the
\* balance stored for u is 0, the `tokens` value of the create-user response,
\* and a following getUserToken(u) returns that value.
C16_NewUserZeroTokens ==
  /\ pc[1] = "done" /\ req[1].op = "createUser" /\ result[1].success =>
       /\ Balance(req[1].user_id) = 0
       /\ Balance(req[1].user_id) =
            createUserResponse(req[1].user_id, result[1]).tokens
  /\ Len(trip.seen) >= 2 =>
       trip.seen[2].value = createUserResponse(trip.user, trip.seen[1]).tokens

\* C17 - Scenario C: a createUser(u) for a user who has an entry fails with
\* AlreadyExists, inserts nothing and changes no balance; no user ever has
\* two entries.
C17_CreateExisting ==
  [][/\ \A u \in Users :
          Cardinality({i \in 1..Len(docs) : docs[i].user_id = u}) <= 1
     /\ pc[1] = "cu_exists" /\ userExists(docs, req[1].user_id)
           /\ pc'[1] # pc[1] =>
          /\ pc'[1] = "done"
          /\ ~result'[1].success
          /\ LedgerErrorClass(result'[1].msg) = "AlreadyExists"
          /\ docs' = docs]_vars

\* C17 witness: a second createUser(u) has failed and u still holds the grant
\* of the first
C17_Witness ==
  /\ pc[1] = "done" /\ req[1].op = "createUser" /\ ~result[1].success
  /\ LedgerErrorClass(result[1].msg) = "AlreadyExists"
  /\ Balance(req[1].user_id) = InitialGrant

ErrorClasses ==
  {"InvalidInput", "CapabilityUnavailable", "Unauthorized", "RateLimited",
   "TransientNetwork", "InsufficientBalance", "UserNotFound", "Unknown"}

CallerMessages ==
  {"User ID is required", "Primary field is required", "Text is too long",
   "User account not found", "Insufficient tokens to perform this operation",
   "System error occurred while processing",
   "AI service is currently unavailable", "AI service authentication failed",
   "AI service is experiencing high demand", "Invalid request parameters",
   "AI service encountered an internal error", "AI service error occurred",
   "Unable to connect to AI service", "AI service request timed out"}
    \cup {FailedTo(op) : op \in AiOps}

ListedClass(e, other) ==
  IF e.status = 401 THEN "Unauthorized"
  ELSE IF e.status = 429 THEN "RateLimited"
  ELSE IF e.status # 0 THEN other
  ELSE IF e.code \in {"ECONNREFUSED", "ENOTFOUND", "ETIMEDOUT"} \/ e.timeoutText
    THEN "TransientNetwork"
  ELSE "Unknown"

\* C21 as stated - the class of every failure of a pending capability call
\* is the listed one, every provider status other than 401 and 429 giving
\* Unknown; an unavailable client gives CapabilityUnavailable.
C21_Original ==
  /\ ErrorClass(serviceErrorHandler(ServiceUnavailableException, "enhance"))
       = "CapabilityUnavailable"
  /\ \A t \in Tasks :
       pc[t] = "capability" =>
         \A e \in ProviderErrors :
           ErrorClass(serviceErrorHandler(e, req[t].op)) = ListedClass(e, "Unknown")

\* C21 amended - classification is total and deterministic onto the closed
\* taxonomy: 401 gives Unauthorized, 429 RateLimited, 400 InvalidInput, any
\* other status Unknown; without a status, connection-refused,
\* host-not-found and timeout give TransientNetwork and anything else
\* Unknown; an unavailable client gives CapabilityUnavailable; a status
\* takes precedence over a socket code; every failed request ends in
\* exactly one class of the taxonomy.
C21_Classification ==
  /\ \A op \in AiOps :
       ErrorClass(serviceErrorHandler(ServiceUnavailableException, op))
         = "CapabilityUnavailable"
  /\ \A t \in Tasks :
       /\ Ended(t) /\ ~result[t].success => Class(t) \in ErrorClasses
       /\ pc[t] = "capability" =>
            \A e \in ProviderErrors :
              ErrorClass(serviceErrorHandler(e, req[t].op))
                = ListedClass(e, IF e.status = 400 THEN "InvalidInput"
                                 ELSE "Unknown")

\* C21 witness: a request has ended RateLimited on a failure that carried
\* both the status 429 and a socket code
C21_Witness ==
  \E t \in Tasks :
    /\ Ended(t) /\ Failed(t, "RateLimited") /\ spends[t] = 1
    /\ serviceErrorHandler(
         [kind |-> "Error", msg |-> "raw provider text", status |-> 429,
          code |-> "ECONNREFUSED", timeoutText |-> TRUE], req[t].op)
         = result[t].msg

\* C22 - Health probe reflects readiness: a healthCheck call never rejects,
\* answers "healthy" exactly when the client handle is present after its
\* ensureReady and "unhealthy" otherwise, and never reaches the ledger or
\* the capability.
C22_HealthReflectsReadiness ==
  \A t \in Tasks :
    req[t].op = "health" =>
      /\ pc[t] \in {"ensure", "done"}
      /\ spends[t] = 0 /\ invokes[t] = 0
      /\ pc[t] = "done" =>
           /\ result[t].success
           /\ result[t].msg \in {"healthy", "unhealthy"}
           /\ result[t].msg = "healthy" <=> openai = "client"

\* C22 witness: the probe has answered "unhealthy" after a construction
\* that failed
C22_Witness ==
  \E t \in Tasks :
    /\ pc[t] = "done" /\ req[t].op = "health" /\ result[t].msg = "unhealthy"
    /\ apiKey /\ Len(inits) = 1 /\ inits[1] = "rejected"

\* the two messages of the request have been built
Assembled == dto.op # "none" /\ messages # NoMessages
KnownSubTypes == {Str(k) : k \in EnhancementType}

\* C23 - Catalog fallback: for the enhance and generate kinds, the lookup of
\* an unknown or missing sub-type returns the same entry as the lookup of
\* general for that kind, and every known sub-type returns a non-empty
\* instruction.
C23_CatalogFallback ==
  Assembled =>
    LET general == IF dto.op = "enhance"
                     THEN getEnhancementSystemPrompt(Str("general"))
                     ELSE getResponseSystemPrompt(Str("general"))
    IN /\ messages.system.type = "string" /\ messages.system.value # ""
       /\ dto.subType \notin KnownSubTypes => messages.system = general

\* present optional fields of the request, in the fixed order of its kind
Present(v) == v.type = "string" /\ v.value # ""
OptionalFields ==
  IF dto.op = "enhance"
    THEN <<[label |-> "Context", text |-> dto.context],
           [label |-> "Target Audience", text |-> dto.targetAudience]>>
    ELSE <<[label |-> "Context", text |-> dto.context],
           [label |-> "Tone", text |-> dto.tone],
           [label |-> "Maximum Length", text |-> dto.maxLength]>>
IsPresent(f) == Present(f.text)

\* C24 - Prompt assembly: the assembled user content starts with the primary
\* field, ends with the closing request, and holds in between the labelled
\* sections of exactly the optional fields that are present, in the order
\* Context, Target Audience (enhance) or Context, Tone, Maximum Length
\* (generate); a missing or empty field contributes no heading.
C24_PromptAssembly ==
  Assembled =>
    LET n == Len(messages.user) IN
      /\ n >= 2
      /\ messages.user[1].text = dto.primary
      /\ messages.user[n].text = undefined
      /\ SubSeq(messages.user, 2, n - 1) = SelectSeq(OptionalFields, IsPresent)

\* C24 witness: an enhancement was assembled from an empty context and a
\* present target audience
C24_Witness ==
  /\ Assembled /\ dto.op = "enhance"
  /\ dto.context = Str("") /\ dto.targetAudience = Str("o1")
  /\ Len(messages.user) = 3

\* the fallback value of an operation kind
FallbackValue(op) ==
  IF op = "enhance" THEN "original prompt" ELSE "Unable to generate response"

\* C25 - Designed degradation: when the capability answers an enhance or
\* generate invocation with no usable content, the request ends in success
\* with the fallback value of its kind (the original prompt for enhance,
\* 'Unable to generate response' for generate), and the spend already taken
\* is kept: the ledger is not touched by the answer.
C25_DesignedDegradation ==
  [][\A t \in Spenders :
       (req[t].op \in {"enhance", "generate"} /\ CapabilityReturns(t, FALSE)) =>
         /\ pc'[t] = "done"
         /\ result'[t].success
         /\ result'[t].msg = FallbackValue(req[t].op)
         /\ spends[t] = 1 /\ spends'[t] = 1
         /\ docs' = docs /\ Balance("u1") < burst.start]_vars

\* C25 witness: an enhancement ended in success with the original prompt
\* after its token was spent
C25_Witness ==
  \E t \in Spenders :
    /\ pc[t] = "done" /\ req[t].op = "enhance"
    /\ result[t].success /\ result[t].msg = "original prompt"
    /\ spends[t] = 1 /\ Balance("u1") = burst.start - 1

\* C26 - Bounded side effects per request: no request performs more than
\* one ledger spend or more than one capability invocation, an invocation
\* is never made before the spend, and every request that ends in success
\* performed exactly one spend and exactly one invocation.
C26_BoundedSideEffects ==
  \A t \in Tasks :
    /\ spends[t] <= 1 /\ invokes[t] <= 1
    /\ invokes[t] <= spends[t]
    /\ (pc[t] = "done" /\ req[t].op \in AiOps /\ result[t].success) =>
         spends[t] = 1 /\ invokes[t] = 1

\* C26 witness: a request failed at the capability after one spend and one
\* invocation, and was not tried again
C26_Witness ==
  \E t \in Tasks :
    /\ pc[t] = "done" /\ req[t].op \in AiOps /\ ~result[t].success
    /\ spends[t] = 1 /\ invokes[t] = 1

\* entries of the ledger that carry user u
EntriesOf(u) == {i \in 1..Len(docs) : docs[i].user_id = u}

\* C27 - Unique ledger entry under concurrent creation: in every reachable
\* state the ledger holds at most one entry for a user, and of the
\* createUser(u) calls that have ended at most one has succeeded.
C27_UniqueEntry ==
  \A u \in Users :
    /\ Cardinality(EntriesOf(u)) <= 1
    /\ Cardinality({t \in Tasks : /\ pc[t] = "done"
                                  /\ req[t].op = "createUser"
                                  /\ req[t].user_id = u
                                  /\ result[t].success}) <= 1

\* task t holds a request with valid fields for a user who has no entry
UnknownUserRequest(t) ==
  /\ req[t].op \in AiOps /\ ~Invalid(t)
  /\ ~userExists(docs, req[t].user_id)

\* C28 - Unknown user: a request of any operation kind with valid fields
\* for a user that has no ledger entry ends, once the ledger has answered
\* it, with UserNotFound; no step of the request creates an entry for the
\* user, changes the ledger, spends or invokes the capability.
C28_UnknownUser ==
  [][\A t \in Tasks :
       (UnknownUserRequest(t) /\ pc[t] \in {"ensure", "deduct"}
        /\ pc'[t] # pc[t]) =>
         /\ docs' = docs
         /\ spends'[t] = 0 /\ invokes'[t] = 0
         /\ pc'[t] \in {"deduct", "done"}
         /\ (pc[t] = "deduct" /\ DeductResolves(t, FALSE)) =>
              /\ ~result'[t].success
              /\ ErrorClass(result'[t].msg) = "UserNotFound"]_vars

\* C28 witness: a synthesize-audio request for a user without an entry has
\* ended with UserNotFound on a ready client
C28_Witness ==
  \E t \in Tasks :
    /\ pc[t] = "done" /\ UnknownUserRequest(t) /\ req[t].op = "tts"
    /\ openai = "client" /\ Failed(t, "UserNotFound")
    /\ spends[t] = 0 /\ invokes[t] = 0

\* the entries of user v in ledger d, in order
EntriesIn(d, v) == LET Mine(e) == e.user_id = v IN SelectSeq(d, Mine)

\* the user a step of task t is made for
ActingUser(t) == IF pc[t] = "idle" THEN req'[t].user_id ELSE req[t].user_id

\* C29 - Cross-user isolation: every step of a ledger call or an operation
\* request issued for user u, whether the call succeeds or fails and
\* whatever other calls are in flight, leaves the entries (existence and
\* balance) of every other user as they were; the ledger changes only in
\* steps of calls.
C29_Isolation ==
  [][/\ \A t \in Tasks :
          pc'[t] # pc[t] =>
            \A v \in Users :
              v # ActingUser(t) => EntriesIn(docs', v) = EntriesIn(docs, v)
     /\ docs' # docs => \E t \in Tasks : pc'[t] # pc[t]]_vars

\* C29 witness: both users hold an entry that calls have changed while a
\* call for u1 and a call for u2 are in flight together
C29_Witness ==
  /\ Len(docs) = 2 /\ docs[1].user_id # docs[2].user_id
  /\ docs \notin SharedLedgers
  /\ \E s, t \in Tasks :
       /\ pc[s] # "idle" /\ pc[t] # "idle"
       /\ req[s].user_id = "u1" /\ req[t].user_id = "u2"

\* an enhance or generate request whose service call has rejected
RejectedTextRequest(t) ==
  /\ Ended(t) /\ req[t].op \in {"enhance", "generate"}
  /\ ~result[t].success

====
